---- MODULE Spec2Model ----
(***************************************************************************)
(* EventTarget of src/src/event-target.ts as a state machine.              *)
(*                                                                         *)
(* The registry `_listeners` is a Map from event type to a Map from        *)
(* listener function to its record.  Both Maps keep insertion order, and   *)
(* a Map iterator is live: it sees entries appended after it was created   *)
(* and never yields an entry deleted before it was reached.  A Map is      *)
(* modelled as a sequence without holes; an iterator is the number of      *)
(* entries it has passed, and a deletion in front of an iterator moves it  *)
(* back by one, which is the same observable behaviour as the holes that   *)
(* ECMAScript leaves in the entry list.                                    *)
(*                                                                         *)
(* Listeners are arbitrary code: while one runs it may call any operation  *)
(* of the target (re-entrancy), and then return or throw any value.  The   *)
(* calls in progress are the frames of `stack`.  Spec is the target with   *)
(* such listeners; SpecFlat is the target with listeners that call no      *)
(* operation of the target, over one more listener.                        *)
(***************************************************************************)
EXTENDS Integers, Sequences, FiniteSets, TLC

\* Bounds of the model: calls made by the caller and by listeners in one run,
\* and dispatch calls nested in one another.
MaxCalls == 4
MaxDepth == 2

\* Listener functions, by identity.
Listeners == {"A", "B", "C"}

\* The listeners registered under Spec, where a listener is arbitrary code.
Reentrant == {"A", "B"}

\* event-target.ts:14 reserves the type 'error'.
Tags == {"x", "error"}

\* The types of SpecApi, where the caller uses one more type.
AllTags == Tags \cup {"y"}

\* Values of JavaScript, by name: a number, undefined, null; the listeners are
\* the functions, every other name is a string.
TypeOf(v) ==
  IF v = "undefined" THEN "undefined"
  ELSE IF v = "42" THEN "number"
  ELSE IF v = "null" THEN "object"
  ELSE IF v \in Listeners THEN "function"
  ELSE "string"

\* What a caller passes as `type` (a string or a number), as `listener` (a
\* function or nothing) and as `once`.
TypeValues == AllTags \cup {"42"}

ListenerValues == Reentrant \cup {"undefined"}

OnceValues == {"true", "false"}

\* `!!once` at line 236, of true, false or undefined (the argument left out)
ToBoolean(o) == o = "true"

\* What dispatchEvent is called with: an object with a `type` property, or null,
\* or a number (whose `type` is undefined).
Event(t) == [kind |-> "object", type |-> t]

EventValues ==
  {Event(t) : t \in TypeValues \cup {"undefined"}} \cup
  {[kind |-> "null", type |-> "undefined"], [kind |-> "number", type |-> "undefined"]}

\* What removeAllListeners is called with: a type, the empty string (a string,
\* and falsy at line 303), or nothing.
TypeArgs == Tags \cup {"", "undefined"}

\* Values a listener of dispatchEvent can throw, and values dispatchError can be
\* called with: an Error object, null, undefined.
Thrown == {"boom", "null", "undefined"}

\* The value a listener of dispatchError throws.
ThrownByError == {"oops"}

VARIABLES
  listeners,   \* this._listeners: sequence of [type, recs], recs a sequence of records
  stack,       \* dispatchEvent / dispatchError calls in progress, innermost last
  microtasks,  \* callbacks queued with queueMicrotask, each rethrows its value
  calls,       \* number of calls made by the caller and by listeners
  fires,       \* per (type, listener): invocations through a once record since it was registered
  done         \* what the last step did: the call that ended, the listener invoked, the microtask run

vars == <<listeners, stack, microtasks, calls, fires, done>>

----------------------------------------------------------------------------
\* Map helpers (ECMAScript Map, insertion ordered).

Rec(l, once) == [listener |-> l, once |-> once]

HasBucket(ls, t) == \E i \in 1..Len(ls) : ls[i].type = t

BucketIndex(ls, t) == CHOOSE i \in 1..Len(ls) : ls[i].type = t

\* this._listeners.get(type), <<>> standing for undefined
Get(ls, t) == IF HasBucket(ls, t) THEN ls[BucketIndex(ls, t)].recs ELSE <<>>

HasRec(recs, l) == \E j \in 1..Len(recs) : recs[j].listener = l

RecIndex(recs, l) == CHOOSE j \in 1..Len(recs) : recs[j].listener = l

RemoveAt(s, i) == SubSeq(s, 1, i - 1) \o SubSeq(s, i + 1, Len(s))

\* MapSet with the bug of a list push: a second entry for a key already there.
MapSetDup(recs, l, once) == Append(recs, Rec(l, once))

\* MapSet with the bug of a guard `if (!listeners.has(listener))`: the first record stays.
MapSetKeep(recs, l, once) ==
  IF HasRec(recs, l) THEN recs ELSE Append(recs, Rec(l, once))

\* MapSet with the bug of an unshift: a new entry goes first.
MapSetFront(recs, l, once) ==
  IF HasRec(recs, l)
  THEN [recs EXCEPT ![RecIndex(recs, l)] = Rec(l, once)]
  ELSE <<Rec(l, once)>> \o recs

\* MapSet with the bug of a delete before the set: a key already there moves to the end.
MapSetRenew(recs, l, once) ==
  IF HasRec(recs, l)
  THEN Append(RemoveAt(recs, RecIndex(recs, l)), Rec(l, once))
  ELSE Append(recs, Rec(l, once))

\* Map.prototype.set: an existing key keeps its place and takes the new value
MapSet(recs, l, once) ==
  IF HasRec(recs, l)
  THEN [recs EXCEPT ![RecIndex(recs, l)] = Rec(l, once)]
  ELSE Append(recs, Rec(l, once))

ListenersOf(recs) == [j \in 1..Len(recs) |-> recs[j].listener]

----------------------------------------------------------------------------
\* Registry operations, as functions of the registry.

\* AddListener with the bug of deleting and setting the bucket again: a type
\* that gets a further listener moves behind the other types.
AddListenerMoveLast(ls, t, l, once) ==
  Append(IF HasBucket(ls, t) THEN RemoveAt(ls, BucketIndex(ls, t)) ELSE ls,
         [type |-> t, recs |-> MapSet(Get(ls, t), l, once)])

\* addEventListener, lines 231-237
AddListener(ls, t, l, once) ==
  LET ls1 == IF HasBucket(ls, t) THEN ls ELSE Append(ls, [type |-> t, recs |-> <<>>])
      i == BucketIndex(ls1, t)
  IN [ls1 EXCEPT ![i].recs = MapSet(@, l, once)]

\* RemoveListener with the bug of a missing line 275: an emptied bucket stays.
RemoveListenerKeepBucket(ls, t, l) ==
  IF ~HasBucket(ls, t) THEN ls
  ELSE LET i == BucketIndex(ls, t)
           recs == ls[i].recs
       IN [ls EXCEPT ![i].recs = IF HasRec(recs, l) THEN RemoveAt(recs, RecIndex(recs, l)) ELSE recs]

\* RemoveListener with the bug of `this._listeners.delete(type)` for the listener.
RemoveListenerBucket(ls, t, l) ==
  IF HasBucket(ls, t) /\ HasRec(Get(ls, t), l) THEN RemoveAt(ls, BucketIndex(ls, t)) ELSE ls

\* RemoveListener with the bug of leaving once records to the dispatch loop.
RemoveListenerPlain(ls, t, l) ==
  IF ~HasBucket(ls, t) THEN ls
  ELSE LET i == BucketIndex(ls, t)
           recs == ls[i].recs
           left == IF HasRec(recs, l) /\ ~recs[RecIndex(recs, l)].once
                   THEN RemoveAt(recs, RecIndex(recs, l)) ELSE recs
       IN IF Len(left) = 0 THEN RemoveAt(ls, i) ELSE [ls EXCEPT ![i].recs = left]

\* RemoveListener with the bug of deleting the oldest record when the listener
\* is not in the bucket.
RemoveListenerAny(ls, t, l) ==
  IF ~HasBucket(ls, t) THEN ls
  ELSE LET i == BucketIndex(ls, t)
           recs == ls[i].recs
           left == IF HasRec(recs, l) THEN RemoveAt(recs, RecIndex(recs, l)) ELSE Tail(recs)
       IN IF Len(left) = 0 THEN RemoveAt(ls, i) ELSE [ls EXCEPT ![i].recs = left]

\* removeEventListener, lines 271-277
RemoveListener(ls, t, l) ==
  IF ~HasBucket(ls, t) THEN ls
  ELSE LET i == BucketIndex(ls, t)
           recs == ls[i].recs
           left == IF HasRec(recs, l) THEN RemoveAt(recs, RecIndex(recs, l)) ELSE recs
       IN IF Len(left) = 0 THEN RemoveAt(ls, i) ELSE [ls EXCEPT ![i].recs = left]

\* RemoveAll with the bug of deleting only the oldest bucket when no type is given.
RemoveAllOldest(ls, t) ==
  IF t # "undefined" /\ t # ""
  THEN IF HasBucket(ls, t) THEN RemoveAt(ls, BucketIndex(ls, t)) ELSE ls
  ELSE IF Len(ls) = 0 THEN ls ELSE Tail(ls)

\* removeAllListeners, lines 303-309; t = "undefined" is the call without argument
RemoveAll(ls, t) ==
  IF t # "undefined" /\ t # ""
  THEN IF HasBucket(ls, t) THEN RemoveAt(ls, BucketIndex(ls, t)) ELSE ls
  ELSE <<>>

\* CountFrom with the bug of counting the buckets, not their records.
CountTags(ls, i) == IF i > Len(ls) THEN 0 ELSE Len(ls) - i + 1

\* listenerCount, lines 463-469
RECURSIVE CountFrom(_, _)
CountFrom(ls, i) == IF i > Len(ls) THEN 0 ELSE Len(ls[i].recs) + CountFrom(ls, i + 1)

listenerCount == CountFrom(listeners, 1)

\* eventNames, lines 445-447
eventNames == [i \in 1..Len(listeners) |-> listeners[i].type]

----------------------------------------------------------------------------
\* Frames: one per dispatchEvent / dispatchError call whose loop is running.

NoRec == Rec("none", FALSE)

Frame(kind, t, error, cause, origin, ls) ==
  [kind |-> kind,          \* "event": dispatchEvent, "error": dispatchError
   type |-> t,             \* event.type
   error |-> error,        \* event.error of the synthesized ErrorEvent
   live |-> TRUE,          \* the Map iterated is still the bucket of the registry
   own |-> <<>>,           \* its entries once it is no longer in the registry
   pos |-> 0,              \* entries the iterator has passed
   cur |-> NoRec,          \* the record `listener` of the loop body
   pc |-> "next",
   \* history
   snap |-> Get(ls, t),    \* the bucket when the call began
   invoked |-> <<>>,       \* listeners invoked by this call, in order
   threw |-> {},           \* listeners whose invocation by this call threw
   dirty |-> FALSE,        \* listeners entered or left the bucket of t, other than by this call's once removal
   queued |-> <<>>,        \* values this call handed to queueMicrotask, in order
   cause |-> cause,        \* the value caught by dispatchEvent that led to this call
   origin |-> origin]      \* "caller": called directly, "listener": called from the catch

Top == stack[Len(stack)]

\* Entries as they would be if the loop iterated a copy of the bucket made when
\* the call began (`for (const listener of [...listeners.values()])`).
EntriesCopied(f, ls) == f.snap

\* Entries with the bug of iterating the oldest bucket, whatever the type.
EntriesOldest(f, ls) == IF Len(ls) = 0 THEN <<>> ELSE ls[1].recs

\* The entries of the Map a frame iterates.
Entries(f, ls) == IF f.live THEN Get(ls, f.type) ELSE f.own

\* An iterator after entry l of bucket t is deleted.  Deleting the last entry
\* deletes the bucket (line 275): the Map the frame holds stays empty for good.
IterAfterRemove(f, ls, t, l) ==
  IF f.live /\ f.type = t /\ HasRec(Get(ls, t), l)
  THEN IF Len(Get(ls, t)) = 1
       THEN [f EXCEPT !.live = FALSE, !.own = <<>>, !.pos = 0]
       ELSE [f EXCEPT !.pos = IF RecIndex(Get(ls, t), l) <= @ THEN @ - 1 ELSE @]
  ELSE f

\* IterAfterRemoveAll with the bug of a clear that empties the Map the loop
\* iterates (`listeners.clear()` on the bucket): the loop ends there.
IterAfterRemoveAllEmptied(f, ls, t) ==
  IF f.live /\ ~HasBucket(RemoveAll(ls, t), f.type)
  THEN [f EXCEPT !.live = FALSE, !.own = <<>>, !.pos = 0]
  ELSE f

\* An iterator after the bucket of its Map is deleted from the registry
\* (lines 305, 308): the frame keeps the Map object, which nothing reaches any more.
IterAfterRemoveAll(f, ls, t) ==
  IF f.live /\ ~HasBucket(RemoveAll(ls, t), f.type)
  THEN [f EXCEPT !.live = FALSE, !.own = Get(ls, f.type)]
  ELSE f

\* history: a frame becomes dirty when the listeners of its tag differ between ls and ls2
Touch(f, ls, ls2) ==
  IF ListenersOf(Get(ls, f.type)) # ListenersOf(Get(ls2, f.type))
  THEN [f EXCEPT !.dirty = TRUE]
  ELSE f

NoCall ==
  [op |-> "none", outcome |-> "none", type |-> "none", listener |-> "none", once |-> FALSE,
   kind |-> "none", passes |-> <<>>,
   prev |-> "none", was |-> <<>>, live |-> FALSE,
   error |-> "none", cause |-> "none", origin |-> "none",
   snap |-> <<>>, invoked |-> <<>>, threw |-> {}, dirty |-> FALSE, queued |-> <<>>,
   depth |-> 0]

\* the record of a dispatch call that ended
Ended(f, outcome, depth) ==
  [NoCall EXCEPT !.op = IF f.kind = "event" THEN "dispatchEvent" ELSE "dispatchError",
                 !.outcome = outcome, !.type = f.type, !.error = f.error,
                 !.cause = f.cause, !.origin = f.origin, !.snap = f.snap,
                 !.invoked = f.invoked, !.threw = f.threw, !.dirty = f.dirty,
                 !.queued = f.queued, !.live = f.live, !.depth = depth]

----------------------------------------------------------------------------
\* history: the count of a pair starts again when the pair leaves the registry
Registered(ls, t, l) == \E i \in 1..Len(ls) : ls[i].type = t /\ HasRec(ls[i].recs, l)

Kept(fs, ls) ==
  [t \in AllTags |-> [l \in Listeners |-> IF fs[t][l] # 0 /\ Registered(ls, t, l) THEN fs[t][l] ELSE 0]]

\* history: how (t, l) is registered: "absent", "once" or "plain"
Flag(ls, t, l) ==
  IF ~Registered(ls, t, l) THEN "absent"
  ELSE IF Get(ls, t)[RecIndex(Get(ls, t), l)].once THEN "once" ELSE "plain"

Init ==
  /\ listeners = <<>>
  /\ stack = <<>>
  /\ microtasks = <<>>
  /\ calls = 0
  /\ fires = [t \in AllTags |-> [l \in Listeners |-> 0]]
  /\ done = NoCall

\* Code that can call the target: the caller when no dispatch is in progress,
\* the listener being invoked otherwise.
CanCall ==
  /\ calls < MaxCalls
  /\ IF Len(stack) = 0 THEN TRUE ELSE Top.pc = "running"

\* addEventListener(type, listener, once); on() and once() call it (lines 130, 159)
AddEventListener(t, l, once) ==
  /\ CanCall
  /\ listeners' = AddListener(listeners, t, l, once)
  /\ stack' = [k \in 1..Len(stack) |-> Touch(stack[k], listeners, listeners')]
  /\ fires' = [fires EXCEPT ![t][l] = 0]
  /\ calls' = calls + 1
  /\ done' = [NoCall EXCEPT !.op = "addEventListener", !.outcome = "returned",
                            !.type = t, !.listener = l, !.once = once,
                            !.prev = Flag(listeners, t, l), !.was = listeners]
  /\ UNCHANGED microtasks

\* removeEventListener(type, listener); off() calls it (line 185)
RemoveEventListener(t, l) ==
  /\ CanCall
  /\ listeners' = RemoveListener(listeners, t, l)
  /\ stack' = [k \in 1..Len(stack) |->
                 Touch(IterAfterRemove(stack[k], listeners, t, l), listeners, listeners')]
  /\ fires' = Kept(fires, listeners')
  /\ calls' = calls + 1
  /\ done' = [NoCall EXCEPT !.op = "removeEventListener", !.outcome = "returned",
                            !.type = t, !.listener = l,
                            !.prev = Flag(listeners, t, l), !.was = listeners]
  /\ UNCHANGED microtasks

\* RemoveAllListeners with the bug of cancelling the deferred tasks of the target.
RemoveAllListenersCancel(t) ==
  /\ CanCall
  /\ listeners' = RemoveAll(listeners, t)
  /\ stack' = [k \in 1..Len(stack) |->
                 Touch(IterAfterRemoveAll(stack[k], listeners, t), listeners, listeners')]
  /\ fires' = Kept(fires, listeners')
  /\ calls' = calls + 1
  /\ done' = [NoCall EXCEPT !.op = "removeAllListeners", !.outcome = "returned",
                            !.type = t, !.was = listeners]
  /\ microtasks' = <<>>

\* removeAllListeners(type?)
RemoveAllListeners(t) ==
  /\ CanCall
  /\ listeners' = RemoveAll(listeners, t)
  /\ stack' = [k \in 1..Len(stack) |->
                 Touch(IterAfterRemoveAll(stack[k], listeners, t), listeners, listeners')]
  /\ fires' = Kept(fires, listeners')
  /\ calls' = calls + 1
  /\ done' = [NoCall EXCEPT !.op = "removeAllListeners", !.outcome = "returned",
                            !.type = t, !.was = listeners]
  /\ UNCHANGED microtasks

\* DispatchEvent with the bug of treating a type without listeners as an error
\* handed to dispatchError.
DispatchEventStrict(t) ==
  /\ CanCall
  /\ calls' = calls + 1
  /\ IF ~HasBucket(listeners, t)
     THEN /\ done' = [Ended([Frame("event", t, "none", "none", "caller", listeners)
                               EXCEPT !.queued = <<"boom">>],
                            "returned", Len(stack)) EXCEPT !.was = listeners]
          /\ microtasks' = Append(microtasks, "boom")
          /\ UNCHANGED stack
     ELSE /\ Len(stack) < MaxDepth
          /\ stack' = Append(stack, Frame("event", t, "none", "none", "caller", listeners))
          /\ done' = NoCall
          /\ UNCHANGED microtasks
  /\ UNCHANGED <<listeners, fires>>

\* dispatchEvent(event) with a well-formed event, up to the loop (lines 340-351)
DispatchEvent(t) ==
  /\ CanCall
  /\ calls' = calls + 1
  /\ IF ~HasBucket(listeners, t)
     THEN /\ done' = [Ended(Frame("event", t, "none", "none", "caller", listeners),
                            "returned", Len(stack)) EXCEPT !.was = listeners]
          /\ UNCHANGED stack
     ELSE /\ Len(stack) < MaxDepth
          /\ stack' = Append(stack, Frame("event", t, "none", "none", "caller", listeners))
          /\ done' = NoCall
  /\ UNCHANGED <<listeners, microtasks, fires>>

\* ErrorBranch with the bug of a missing lines 396-402: with no 'error' bucket the
\* loop runs over nothing and the error is lost.
ErrorBranchSilent(ls, v) ==
  IF v = "null" \/ v = "undefined" THEN "TypeError" ELSE "deliver"

\* ErrorBranch with the bug of a missing argument check (lines 392-394).
ErrorBranchLax(ls, v) == IF ~HasBucket(ls, "error") THEN "deferred" ELSE "deliver"

\* ErrorBranch with the bug of a synchronous `throw error` at line 398.
ErrorBranchSync(ls, v) ==
  IF v = "null" \/ v = "undefined" \/ ~HasBucket(ls, "error") THEN "TypeError" ELSE "deliver"

\* How dispatchError(error) begins (lines 392-402):
\* "TypeError" thrown, "deferred" to a microtask, or "deliver" to the 'error' listeners.
ErrorBranch(ls, v) ==
  IF v = "null" \/ v = "undefined" THEN "TypeError"
  ELSE IF ~HasBucket(ls, "error") THEN "deferred"
  ELSE "deliver"

\* dispatchError(error) called by the caller or by a listener, up to the loop
DispatchError(v) ==
  /\ CanCall
  /\ calls' = calls + 1
  /\ LET b == ErrorBranch(listeners, v)
         f == [Frame("error", "error", v, "none", "caller", listeners)
                 EXCEPT !.queued = IF b = "deferred" THEN <<v>> ELSE <<>>]
     IN /\ b = "deliver" => Len(stack) < MaxDepth
        /\ stack' = IF b = "deliver" THEN Append(stack, f) ELSE stack
        /\ microtasks' = IF b = "deferred" THEN Append(microtasks, v) ELSE microtasks
        /\ done' = IF b = "deliver" THEN NoCall
                   ELSE [Ended(f, IF b = "TypeError" THEN "TypeError" ELSE "returned", Len(stack))
                           EXCEPT !.was = listeners]
  /\ UNCHANGED <<listeners, fires>>

\* The loop head of both dispatch loops (lines 353, 410): the iterator yields the
\* next record and its listener is invoked (lines 355, 412), or the loop ends and
\* the call returns (lines 365, 424).
IterNext ==
  /\ Len(stack) > 0
  /\ Top.pc = "next"
  /\ LET f == Top
         es == Entries(f, listeners)
         n == Len(stack)
     IN IF f.pos < Len(es)
        THEN LET r == es[f.pos + 1]
             IN /\ stack' = [stack EXCEPT ![n] =
                               [f EXCEPT !.pos = f.pos + 1, !.cur = r, !.pc = "running",
                                         !.invoked = Append(@, r.listener)]]
                /\ fires' = IF r.once
                            THEN [fires EXCEPT ![f.type][r.listener] = IF @ < 2 THEN @ + 1 ELSE @]
                            ELSE fires
                /\ done' = [NoCall EXCEPT !.op = "invoke", !.type = f.type,
                                          !.listener = r.listener, !.once = r.once,
                                          !.error = f.error, !.live = f.live, !.depth = n]
        ELSE /\ stack' = SubSeq(stack, 1, n - 1)
             /\ done' = Ended(f, "returned", n - 1)
             /\ UNCHANGED fires
  /\ UNCHANGED <<listeners, microtasks, calls>>

\* OnceRemoved with the bug of a finally block that drops the whole bucket
\* (`this.removeAllListeners(event.type)`).
OnceRemovedBucket(ls, f) == IF f.cur.once THEN RemoveAll(ls, f.type) ELSE ls

\* OnceRemoved with the bug of a finally block that reads the once flag from the
\* record now in the registry rather than from the record it invoked.
OnceRemovedLive(ls, f) ==
  IF Flag(ls, f.type, f.cur.listener) = "once"
  THEN RemoveListener(ls, f.type, f.cur.listener)
  ELSE ls

\* The finally block of both loops (lines 358-362, 417-421): the registry and the
\* stack after `if (listener.once) this.removeEventListener(event.type, listener.listener)`
\* run by the innermost frame.
OnceRemoved(ls, f) == IF f.cur.once THEN RemoveListener(ls, f.type, f.cur.listener) ELSE ls

StackAfterOnce(st, ls, pc) ==
  LET n == Len(st)
      f == st[n]
      ls2 == OnceRemoved(ls, f)
  IN [k \in 1..n |->
        LET g == IF f.cur.once THEN IterAfterRemove(st[k], ls, f.type, f.cur.listener) ELSE st[k]
        IN IF k = n THEN [g EXCEPT !.pc = pc, !.cur = NoRec] ELSE Touch(g, ls, ls2)]

\* The listener being invoked returns normally; the finally block runs.
ListenerReturn ==
  /\ Len(stack) > 0
  /\ Top.pc = "running"
  /\ listeners' = OnceRemoved(listeners, Top)
  /\ stack' = StackAfterOnce(stack, listeners, "next")
  /\ fires' = Kept(fires, listeners')
  /\ done' = NoCall
  /\ UNCHANGED <<microtasks, calls>>

\* ListenerThrowEvent with the bug of a catch block that defers the delivery
\* (`queueMicrotask(() => this.dispatchError(thrown))`): the loop goes on first.
ListenerThrowEventLater(v) ==
  /\ Len(stack) > 0
  /\ Top.pc = "running"
  /\ Top.kind = "event"
  /\ LET n == Len(stack)
         f == [Top EXCEPT !.threw = @ \cup {Top.cur.listener}]
         b == ErrorBranch(listeners, v)
         e == [Frame("error", "error", v, v, "listener", listeners)
                 EXCEPT !.queued = IF b # "TypeError" THEN <<v>> ELSE <<>>]
     IN /\ stack' = [stack EXCEPT ![n] =
                       [f EXCEPT !.pc = IF b = "TypeError" THEN "unwinding" ELSE "catching"]]
        /\ microtasks' = IF b # "TypeError" THEN Append(microtasks, v) ELSE microtasks
        /\ done' = Ended(e, IF b = "TypeError" THEN "TypeError" ELSE "returned", n)
  /\ UNCHANGED <<listeners, calls, fires>>

\* The listener invoked by dispatchEvent throws v: the catch block calls
\* this.dispatchError(v) (line 357).
ListenerThrowEvent(v) ==
  /\ Len(stack) > 0
  /\ Top.pc = "running"
  /\ Top.kind = "event"
  /\ LET n == Len(stack)
         f == [Top EXCEPT !.threw = @ \cup {Top.cur.listener}]
         b == ErrorBranch(listeners, v)
         e == [Frame("error", "error", v, v, "listener", listeners)
                 EXCEPT !.queued = IF b = "deferred" THEN <<v>> ELSE <<>>]
     IN /\ stack' = IF b = "deliver"
                    THEN Append([stack EXCEPT ![n] = [f EXCEPT !.pc = "catching"]], e)
                    ELSE [stack EXCEPT ![n] =
                            [f EXCEPT !.pc = IF b = "TypeError" THEN "unwinding" ELSE "catching"]]
        /\ microtasks' = IF b = "deferred" THEN Append(microtasks, v) ELSE microtasks
        /\ done' = IF b = "deliver" THEN NoCall
                   ELSE Ended(e, IF b = "TypeError" THEN "TypeError" ELSE "returned", n)
  /\ UNCHANGED <<listeners, calls, fires>>

\* Finally with the bug of a once removal placed after the invocation inside the
\* try block: it is skipped when the listener throws.
FinallyKeep ==
  /\ Len(stack) > 0
  /\ Top.pc \in {"catching", "unwinding"}
  /\ LET n == Len(stack)
         st == [stack EXCEPT ![n].pc = "next", ![n].cur = NoRec]
     IN IF Top.pc = "catching"
        THEN /\ stack' = st
             /\ done' = NoCall
        ELSE /\ stack' = SubSeq(st, 1, n - 1)
             /\ done' = Ended(st[n], "TypeError", n - 1)
  /\ UNCHANGED <<listeners, microtasks, calls, fires>>

\* dispatchEvent after its call of dispatchError ended: the finally block runs, then
\* the loop goes on ("catching") or the TypeError of dispatchError leaves
\* dispatchEvent ("unwinding").
Finally ==
  /\ Len(stack) > 0
  /\ Top.pc \in {"catching", "unwinding"}
  /\ listeners' = OnceRemoved(listeners, Top)
  /\ LET st == StackAfterOnce(stack, listeners, "next")
         n == Len(stack)
     IN IF Top.pc = "catching"
        THEN /\ stack' = st
             /\ done' = NoCall
        ELSE /\ stack' = SubSeq(st, 1, n - 1)
             /\ done' = Ended(st[n], "TypeError", n - 1)
  /\ fires' = Kept(fires, listeners')
  /\ UNCHANGED <<microtasks, calls>>

\* Rethrown with the bug of `throw error` at line 415: the payload of the call.
RethrownPayload(f, v) == f.error

\* The value the microtask queued by the catch block of dispatchError rethrows
\* (lines 413-416): what the listener threw.
Rethrown(f, v) == v

\* The listener invoked by dispatchError throws v: the catch block queues a
\* microtask that rethrows it (lines 413-416); the finally block runs.
ListenerThrowError(v) ==
  /\ Len(stack) > 0
  /\ Top.pc = "running"
  /\ Top.kind = "error"
  /\ LET n == Len(stack)
         st == [stack EXCEPT ![n].threw = @ \cup {Top.cur.listener},
                             ![n].queued = Append(@, Rethrown(Top, v))]
     IN /\ listeners' = OnceRemoved(listeners, Top)
        /\ stack' = StackAfterOnce(st, listeners, "next")
  /\ microtasks' = Append(microtasks, Rethrown(Top, v))
  /\ fires' = Kept(fires, listeners')
  /\ done' = NoCall
  /\ UNCHANGED calls

\* RunMicrotask with the bug of a deferred task that delivers the error to the
\* 'error' listeners registered by the time it runs.
RunMicrotaskReplay ==
  /\ Len(stack) = 0
  /\ microtasks # <<>>
  /\ microtasks' = Tail(microtasks)
  /\ stack' = IF HasBucket(listeners, "error")
              THEN <<Frame("error", "error", Head(microtasks), "none", "caller", listeners)>>
              ELSE stack
  /\ done' = [NoCall EXCEPT !.op = "microtask", !.outcome = "threw", !.error = Head(microtasks)]
  /\ UNCHANGED <<listeners, calls, fires>>

\* The host runs the oldest microtask once the call stack is empty: it throws its value.
RunMicrotask ==
  /\ Len(stack) = 0
  /\ microtasks # <<>>
  /\ microtasks' = Tail(microtasks)
  /\ done' = [NoCall EXCEPT !.op = "microtask", !.outcome = "threw", !.error = Head(microtasks)]
  /\ UNCHANGED <<listeners, stack, calls, fires>>

Next ==
  \/ \E t \in Tags, l \in Reentrant, once \in BOOLEAN : AddEventListener(t, l, once)
  \/ \E t \in Tags, l \in Reentrant : RemoveEventListener(t, l)
  \/ \E t \in TypeArgs : RemoveAllListeners(t)
  \/ \E t \in Tags : DispatchEvent(t)
  \/ \E v \in Thrown : DispatchError(v)
  \/ IterNext
  \/ ListenerReturn
  \/ \E v \in Thrown : ListenerThrowEvent(v)
  \/ \E v \in ThrownByError : ListenerThrowError(v)
  \/ Finally
  \/ RunMicrotask

Spec == Init /\ [][Next]_vars

\* The same target used by a caller whose listeners call no operation of the
\* target: they only return or throw.
Outside == Len(stack) = 0

FlatAdd == Outside /\ \E t \in Tags, l \in Listeners, once \in BOOLEAN : AddEventListener(t, l, once)

FlatRemove == Outside /\ \E t \in Tags, l \in Listeners : RemoveEventListener(t, l)

FlatRemoveAll == Outside /\ \E t \in TypeArgs : RemoveAllListeners(t)

FlatDispatch == Outside /\ \E t \in Tags : DispatchEvent(t)

FlatDispatchError == Outside /\ \E v \in Thrown : DispatchError(v)

NextFlat ==
  \/ FlatAdd
  \/ FlatRemove
  \/ FlatRemoveAll
  \/ FlatDispatch
  \/ FlatDispatchError
  \/ IterNext
  \/ ListenerReturn
  \/ \E v \in Thrown : ListenerThrowEvent(v)
  \/ \E v \in ThrownByError : ListenerThrowError(v)
  \/ Finally
  \/ RunMicrotask

SpecFlat == Init /\ [][NextFlat]_vars

----------------------------------------------------------------------------
\* The whole call of each operation, argument checks included, as made by a
\* caller that passes any value.

\* A call that ends at a `throw new TypeError(...)` of an argument check.
Rejected(op, arg) ==
  /\ CanCall
  /\ calls' = calls + 1
  /\ done' = [NoCall EXCEPT !.op = op, !.outcome = "TypeError", !.kind = arg.kind,
                            !.type = arg.type, !.listener = arg.listener, !.was = listeners]
  /\ UNCHANGED <<listeners, stack, microtasks, fires>>

Pair(t, l) == [kind |-> "pair", type |-> t, listener |-> l]

\* WellFormed with the bug of a missing check of the listener (lines 227-229).
WellFormedType(t, l) == TypeOf(t) = "string"

\* The argument checks of addEventListener and removeEventListener
\* (lines 224-229, 265-270) pass.
WellFormed(t, l) == TypeOf(t) = "string" /\ TypeOf(l) = "function"

\* addEventListener(type, listener, once), lines 215-239
AddEventListenerCall(t, l, o) ==
  IF WellFormed(t, l)
  THEN AddEventListener(t, l, ToBoolean(o))
  ELSE Rejected("addEventListener", Pair(t, l))

\* removeEventListener(type, listener), lines 256-279
RemoveEventListenerCall(t, l) ==
  IF WellFormed(t, l)
  THEN RemoveEventListener(t, l)
  ELSE Rejected("removeEventListener", Pair(t, l))

\* removeAllListeners(type?), lines 298-312
RemoveAllListenersCall(t) ==
  IF TypeOf(t) # "undefined" /\ TypeOf(t) # "string"
  THEN Rejected("removeAllListeners", Pair(t, "none"))
  ELSE RemoveAllListeners(t)

\* EventOk with the bug of a missing check of `event.type` (line 343).
EventOkObject(ev) == ev.kind = "object"

\* The argument check of dispatchEvent (lines 340-346) passes.
EventOk(ev) ==
  ~ \/ (IF ev.kind = "number" THEN "number" ELSE "object") # "object"
    \/ ev.kind = "null"
    \/ TypeOf(ev.type) # "string"

\* dispatchEvent(event), lines 335-366
DispatchEventCall(ev) ==
  IF EventOk(ev)
  THEN DispatchEvent(ev.type)
  ELSE Rejected("dispatchEvent", [kind |-> ev.kind, type |-> ev.type, listener |-> "none"])

\* on with the bug of calling addEventListener(type, listener, true).
OnAsOnce(t, l) == AddEventListenerCall(t, l, "true")

\* on(type, listener), line 130: addEventListener without `once`
On(t, l) == AddEventListenerCall(t, l, "undefined")

\* once(type, listener), line 159
Once(t, l) == AddEventListenerCall(t, l, "true")

\* off(type, listener), line 185
Off(t, l) == RemoveEventListenerCall(t, l)

\* KeysFrom with the bug of an iterator that starts again.
KeysAll(ls, pos) == [i \in 1..Len(ls) |-> ls[i].type]

\* What the iterator of `this._listeners.keys()` yields from the position it is
\* at until it is exhausted; it then stands after the last key.
KeysFrom(ls, pos) == [i \in 1..(Len(ls) - pos) |-> ls[pos + i].type]

\* eventNames() (lines 445-447), and the value it returned iterated to
\* exhaustion, then iterated once more: `passes` holds what each pass yielded.
EventNames ==
  /\ CanCall
  /\ calls' = calls + 1
  /\ LET first == KeysFrom(listeners, 0)
     IN done' = [NoCall EXCEPT !.op = "eventNames", !.outcome = "returned",
                               !.passes = <<first, KeysFrom(listeners, 0 + Len(first))>>,
                               !.was = listeners]
  /\ UNCHANGED <<listeners, stack, microtasks, fires>>

ApiAdd ==
  Outside /\ \E t \in TypeValues, l \in ListenerValues, o \in OnceValues : AddEventListenerCall(t, l, o)

ApiRemove == Outside /\ \E t \in TypeValues, l \in ListenerValues : RemoveEventListenerCall(t, l)

ApiRemoveAll == Outside /\ \E t \in TypeValues \cup {"undefined"} : RemoveAllListenersCall(t)

ApiDispatch == Outside /\ \E ev \in EventValues : DispatchEventCall(ev)

ApiOn == Outside /\ \E t \in TypeValues, l \in ListenerValues : On(t, l)

ApiOnce == Outside /\ \E t \in TypeValues, l \in ListenerValues : Once(t, l)

ApiOff == Outside /\ \E t \in TypeValues, l \in ListenerValues : Off(t, l)

ApiEventNames == Outside /\ EventNames

\* The target used through its whole surface by a caller whose listeners return
\* normally and call no operation of the target.
NextApi ==
  \/ ApiAdd
  \/ ApiRemove
  \/ ApiRemoveAll
  \/ ApiDispatch
  \/ ApiOn
  \/ ApiOnce
  \/ ApiOff
  \/ ApiEventNames
  \/ IterNext
  \/ ListenerReturn

SpecApi == Init /\ [][NextApi]_vars

\* The target used under both naming styles, over the types of Spec and a
\* value that is not a string.
AliasTypes == Tags \cup {"42"}

AliasAdd ==
  Outside /\ \E t \in AliasTypes, l \in ListenerValues, o \in OnceValues : AddEventListenerCall(t, l, o)

AliasRemove == Outside /\ \E t \in AliasTypes, l \in ListenerValues : RemoveEventListenerCall(t, l)

AliasOn == Outside /\ \E t \in AliasTypes, l \in ListenerValues : On(t, l)

AliasOnce == Outside /\ \E t \in AliasTypes, l \in ListenerValues : Once(t, l)

AliasOff == Outside /\ \E t \in AliasTypes, l \in ListenerValues : Off(t, l)

NextAlias ==
  \/ AliasAdd
  \/ AliasRemove
  \/ AliasOn
  \/ AliasOnce
  \/ AliasOff
  \/ FlatDispatch
  \/ IterNext
  \/ ListenerReturn

SpecAlias == Init /\ [][NextAlias]_vars

----------------------------------------------------------------------------
\* Properties.

----------------------------------------------------------------------------
\* The target with one listener function, used by a caller whose listener calls
\* no operation of the target, under a host that runs its microtasks and
\* listeners that terminate.

LiveAdd == Outside /\ \E t \in Tags, once \in BOOLEAN : AddEventListener(t, "A", once)

NextLive ==
  \/ LiveAdd
  \/ FlatRemoveAll
  \/ FlatDispatch
  \/ FlatDispatchError
  \/ IterNext
  \/ ListenerReturn
  \/ \E v \in Thrown : ListenerThrowEvent(v)
  \/ \E v \in ThrownByError : ListenerThrowError(v)
  \/ Finally
  \/ RunMicrotask

\* A listener being invoked ends and the loops go on (no suspension point in
\* lines 353-363, 410-422); the host runs a queued microtask once the stack is empty.
SpecLive ==
  /\ Init
  /\ [][NextLive]_vars
  /\ WF_vars(IterNext \/ ListenerReturn \/ Finally)
  /\ WF_vars(RunMicrotask)

----------------------------------------------------------------------------
\* The target used by a caller that registers and dispatches, with listeners
\* whose only call of the target is removeAllListeners; no listener throws.

ClearAdd == Outside /\ \E t \in Tags, l \in Reentrant, once \in BOOLEAN : AddEventListener(t, l, once)

ListenerClears == Len(stack) > 0 /\ \E t \in TypeArgs : RemoveAllListeners(t)

NextClear ==
  \/ ClearAdd
  \/ FlatDispatch
  \/ ListenerClears
  \/ IterNext
  \/ ListenerReturn

SpecClear == Init /\ [][NextClear]_vars

----------------------------------------------------------------------------
\* The target used by a caller that registers and dispatches, with listeners
\* that register and unregister listeners during their invocation and call
\* neither dispatchEvent nor dispatchError; no listener throws.

ListenerAdds ==
  Len(stack) > 0 /\ \E t \in Tags, l \in Reentrant, once \in BOOLEAN : AddEventListener(t, l, once)

ListenerRemoves == Len(stack) > 0 /\ \E t \in Tags, l \in Reentrant : RemoveEventListener(t, l)

NextMutate ==
  \/ ClearAdd
  \/ FlatDispatch
  \/ ListenerAdds
  \/ ListenerRemoves
  \/ IterNext
  \/ ListenerReturn

SpecMutate == Init /\ [][NextMutate]_vars

Range(s) == {s[i] : i \in 1..Len(s)}

IsPrefix(a, b) == Len(a) <= Len(b) /\ a = SubSeq(b, 1, Len(a))

NoDup(s) == \A i, j \in 1..Len(s) : s[i] = s[j] => i = j

DispatchReturned == done.op = "dispatchEvent" /\ done.outcome = "returned"

\* C1: when a listener L of the event's tag throws during dispatchEvent, whatever
\* it throws, every listener registered after L for that tag when the dispatch
\* began is invoked in that same dispatch (stated for dispatches during which no
\* listener entered or left the bucket).
C1_FailureIsolation ==
  (done.op = "dispatchEvent" /\ ~done.dirty) =>
    \A i, j \in 1..Len(done.snap) :
      (i < j /\ done.snap[i].listener \in done.threw)
        => done.snap[j].listener \in Range(done.invoked)

\* C2: dispatchEvent with a well-formed event always returns normally: nothing a
\* listener raises is thrown out of it.
C2_DispatchReturns == done.op = "dispatchEvent" => done.outcome = "returned"

\* C3: when a listener throws v during dispatchEvent and 'error' has listeners,
\* each of them is invoked exactly once for that failure, with an event of type
\* 'error' whose error field is v itself.
C3_ErrorDelivered ==
  (done.op = "dispatchError" /\ done.origin = "listener" /\ Len(done.snap) > 0) =>
    /\ done.outcome = "returned"
    /\ done.type = "error"
    /\ done.error = done.cause
    /\ ~done.dirty => done.invoked = ListenersOf(done.snap)

C7_OnceUnderReentrancy == \A t \in Tags, l \in Listeners : fires[t][l] <= 1

\* C6: a once-listener is invoked by the first dispatch of its tag after its
\* registration and by no later one, and is absent from the registry when that
\* first dispatch returns (the latter stated for dispatches during which no
\* listener entered or left the bucket).
C6_OnceFiresOnce ==
  /\ \A t \in Tags, l \in Listeners : fires[t][l] < 2
  /\ (DispatchReturned /\ ~done.dirty) =>
       \A i \in 1..Len(done.snap) :
         done.snap[i].once =>
           /\ done.snap[i].listener \in Range(done.invoked)
           /\ ~Registered(listeners, done.type, done.snap[i].listener)

\* C8: registering a (tag, listener) pair that is already registered adds no
\* second entry and leaves listenerCount unchanged, and the listener is invoked
\* once, not twice, per dispatch: the registry never holds a listener twice for a
\* tag, and a dispatch during which no listener entered or left its bucket
\* (repeated registrations allowed) invokes no listener twice.
C8_IdempotentRegistration ==
  /\ (done.op = "addEventListener" /\ done.prev # "absent") =>
       /\ listenerCount = CountFrom(done.was, 1)
       /\ Len(listeners) = Len(done.was)
       /\ \A i \in 1..Len(listeners) :
            /\ listeners[i].type = done.was[i].type
            /\ ListenersOf(listeners[i].recs) = ListenersOf(done.was[i].recs)
  /\ \A i \in 1..Len(listeners) : NoDup(ListenersOf(listeners[i].recs))
  /\ \A k \in 1..Len(stack) : ~stack[k].dirty => NoDup(stack[k].invoked)
  /\ (done.op \in {"dispatchEvent", "dispatchError"} /\ ~done.dirty) => NoDup(done.invoked)

\* C8 witness: A was registered for x and is registered for x again; one listener.
C8_Witness ==
  /\ done.op = "addEventListener" /\ done.prev # "absent"
  /\ done.type = "x" /\ done.listener = "A"
  /\ listenerCount = 1

C10_RegistrationOrder ==
  /\ (done.op = "addEventListener" /\ done.prev = "absent") =>
       ListenersOf(Get(listeners, done.type))
         = Append(ListenersOf(Get(done.was, done.type)), done.listener)
  /\ (done.op = "addEventListener" /\ done.prev # "absent") =>
       ListenersOf(Get(listeners, done.type)) = ListenersOf(Get(done.was, done.type))
  /\ \A k \in 1..Len(stack) :
       ~stack[k].dirty => IsPrefix(stack[k].invoked, ListenersOf(stack[k].snap))
  /\ (DispatchReturned /\ ~done.dirty) => done.invoked = ListenersOf(done.snap)

\* C10 witness: C, A, B were registered in that order and a dispatch invoked
\* C, A, B.
C10_Witness ==
  /\ DispatchReturned
  /\ ListenersOf(done.snap) = <<"C", "A", "B">>
  /\ done.invoked = <<"C", "A", "B">>

NonNull(v) == v # "null" /\ v # "undefined"

\* C11: dispatchError(e) with e non-null and no 'error' listener invokes no
\* listener, returns normally, and queues exactly one microtask whose value is e
\* itself; that microtask is still pending when the call returns and runs only
\* once the call stack is empty.
C11_DeferredWhenUnheard ==
  /\ (done.op = "dispatchError" /\ NonNull(done.error) /\ Len(done.snap) = 0) =>
       /\ done.outcome = "returned"
       /\ done.invoked = <<>>
       /\ done.queued = <<done.error>>
       /\ Len(microtasks) > 0
       /\ microtasks[Len(microtasks)] = done.error
  /\ done.op = "microtask" => Len(stack) = 0

\* C11 witness: a listener being invoked called dispatchError("boom") with no
\* 'error' listener registered; the call returned and the microtask is pending
\* while the listener is still running.
C11_Witness ==
  /\ done.op = "dispatchError" /\ done.origin = "caller" /\ done.error = "boom"
  /\ Len(done.snap) = 0 /\ done.outcome = "returned"
  /\ done.depth >= 1 /\ Len(stack) >= 1
  /\ microtasks = <<"boom">>

\* C12: a value thrown by an 'error' listener during dispatchError is never
\* delivered to the 'error' listeners; it is queued as a microtask, one per
\* failing listener, the payload of the call is not queued, and the remaining
\* 'error' listeners are still invoked (the last two counted for calls during
\* which no listener entered or left the bucket).
C12_ErrorListenerFailure ==
  /\ \A k \in 1..Len(stack) : stack[k].error \notin ThrownByError
  /\ done.op = "invoke" => done.error \notin ThrownByError
  /\ (done.op = "dispatchError" /\ done.threw # {}) =>
       /\ done.outcome = "returned"
       /\ \A i \in 1..Len(done.queued) : done.queued[i] \in ThrownByError
       /\ ~done.dirty =>
            /\ Len(done.queued) = Cardinality(done.threw)
            /\ done.invoked = ListenersOf(done.snap)

\* C12 witness: dispatchError("boom") with 'error' listeners A and B; A threw, B
\* was invoked after it, and one microtask holding what A threw is queued.
C12_Witness ==
  /\ done.op = "dispatchError" /\ done.error = "boom"
  /\ ListenersOf(done.snap) = <<"A", "B">>
  /\ done.threw = {"A"}
  /\ done.invoked = <<"A", "B">>
  /\ done.queued = <<"oops">>

\* C13: dispatchError(e) with e neither null nor undefined returns normally to
\* its caller, with or without 'error' listeners and whatever they throw.
C13_DispatchErrorReturns ==
  (done.op = "dispatchError" /\ NonNull(done.error)) => done.outcome = "returned"

\* C13 witness: dispatchError called directly with a non-null value, every
\* 'error' listener it invoked threw, and the call returned.
C13_Witness ==
  /\ done.op = "dispatchError" /\ done.origin = "caller" /\ NonNull(done.error)
  /\ Len(done.invoked) = 2
  /\ done.threw = Range(done.invoked)
  /\ done.outcome = "returned"

\* C14: in every reachable state, those a listener observes during a dispatch
\* included, no type of the registry maps to an empty collection of listeners,
\* so eventNames yields no type without listeners.
C14_NoEmptyBucket ==
  \A i \in 1..Len(listeners) : Len(listeners[i].recs) > 0

\* C14 witness: a listener being invoked removed the last listener of a type,
\* and the type is gone from the registry.
C14_Witness ==
  /\ done.op = "removeEventListener" /\ done.prev # "absent"
  /\ Len(Get(done.was, done.type)) = 1
  /\ Len(stack) >= 1
  /\ ~HasBucket(listeners, done.type)

\* C15: listenerCount() is the number of distinct (type, listener) pairs
\* registered, the sum over the types of their listeners.
C15_CountIsPairs ==
  listenerCount = Cardinality({p \in Tags \X Listeners : Registered(listeners, p[1], p[2])})

\* C15 witness: two listeners on one type and one on another give 3.
C15_Witness ==
  /\ Len(Get(listeners, "x")) = 2
  /\ Len(Get(listeners, "error")) = 1
  /\ listenerCount = 3

\* C16: for every string t, the empty string included, removeAllListeners(t)
\* removes the listeners of t and nothing else: the other types keep their
\* listeners and their order.
C16_RemoveAllOfTag ==
  (done.op = "removeAllListeners" /\ done.type # "undefined") =>
    LET Other(b) == b.type # done.type
    IN listeners = SelectSeq(done.was, Other)

\* C17: removeAllListeners() without argument empties the registry:
\* listenerCount() is 0, eventNames() is empty, no type has listeners, and a
\* dispatch begun on the empty registry invokes no listener.
C17_RemoveAllEmpties ==
  /\ (done.op = "removeAllListeners" /\ done.type = "undefined") =>
       /\ listenerCount = 0
       /\ eventNames = <<>>
       /\ \A t \in Tags : Get(listeners, t) = <<>>
  /\ (done.op = "dispatchEvent" /\ done.was = <<>> /\ Len(done.snap) = 0) =>
       done.invoked = <<>>

\* C17 witness: removeAllListeners() was called on a registry of two types.
C17_Witness ==
  /\ done.op = "removeAllListeners" /\ done.type = "undefined"
  /\ Len(done.was) = 2
  /\ listenerCount = 0

\* C18: removeEventListener(t, l) on a registered pair removes that record and
\* nothing else: listenerCount drops by one, the other records of t keep their
\* order, the other types are untouched, and t leaves eventNames exactly when l
\* was its last listener.
C18_RemoveExactlyOne ==
  (done.op = "removeEventListener" /\ done.prev # "absent") =>
    LET Rest(r) == r.listener # done.listener
        Other(b) == b.type # done.type \/ Len(b.recs) > 1
    IN /\ listenerCount = CountFrom(done.was, 1) - 1
       /\ Get(listeners, done.type) = SelectSeq(Get(done.was, done.type), Rest)
       /\ \A u \in Tags \ {done.type} : Get(listeners, u) = Get(done.was, u)
       /\ HasBucket(listeners, done.type) <=> Len(Get(done.was, done.type)) > 1
       /\ eventNames = [i \in 1..Len(SelectSeq(done.was, Other)) |->
                          SelectSeq(done.was, Other)[i].type]

\* C18 witness: A removed from a type that holds A and B while another type has
\* a listener too; B stays and the type stays.
C18_Witness ==
  /\ done.op = "removeEventListener" /\ done.prev # "absent"
  /\ done.type = "x" /\ done.listener = "A"
  /\ ListenersOf(Get(done.was, "x")) = <<"A", "B">>
  /\ ListenersOf(Get(listeners, "x")) = <<"B">>
  /\ HasBucket(listeners, "error")

\* C19: removeEventListener(t, l) for a pair that is not registered, the type
\* unknown or known without l, returns normally and leaves the registry as it was.
C19_RemoveAbsentIsNoop ==
  (done.op = "removeEventListener" /\ done.prev = "absent") =>
    /\ done.outcome = "returned"
    /\ listeners = done.was

\* C19 witness: B removed from a type that holds A only.
C19_Witness ==
  /\ done.op = "removeEventListener" /\ done.prev = "absent"
  /\ done.listener = "B"
  /\ ListenersOf(Get(done.was, done.type)) = <<"A">>
  /\ ListenersOf(Get(listeners, done.type)) = <<"A">>

\* C20: dispatchEvent of a type without listeners does nothing: no listener of
\* any type is invoked, the registry is as before, the call returns normally and
\* queues no microtask.
C20_DispatchUnheardIsNoop ==
  (done.op = "dispatchEvent" /\ Len(done.snap) = 0) =>
    /\ done.outcome = "returned"
    /\ done.invoked = <<>>
    /\ done.queued = <<>>
    /\ listeners = done.was

\* C20 witness: 'x' dispatched while only 'error' has listeners.
C20_Witness ==
  /\ done.op = "dispatchEvent" /\ done.type = "x" /\ Len(done.snap) = 0
  /\ done.outcome = "returned"
  /\ HasBucket(listeners, "error")
  /\ microtasks = <<>>

\* C21: addEventListener / on / once and removeEventListener / off called with a
\* type that is not a string or a listener that is not a function (the listener
\* left out included) throw a TypeError to the caller and leave the registry as
\* it was; no such call is accepted.
C21_BadArgumentsRejected ==
  /\ (done.op \in {"addEventListener", "removeEventListener"} /\ done.outcome = "TypeError") =>
       /\ TypeOf(done.type) # "string" \/ TypeOf(done.listener) # "function"
       /\ listeners = done.was
       /\ done.queued = <<>>
  /\ (done.op \in {"addEventListener", "removeEventListener"} /\ done.outcome = "returned") =>
       /\ TypeOf(done.type) = "string"
       /\ TypeOf(done.listener) = "function"
  /\ \A i \in 1..Len(listeners) :
       /\ TypeOf(listeners[i].type) = "string"
       /\ \A j \in 1..Len(listeners[i].recs) : TypeOf(listeners[i].recs[j].listener) = "function"

\* C21 witness: a call with type 'x' and no listener was rejected while 'x' has a
\* listener, which is still registered.
C21_Witness ==
  /\ done.op \in {"addEventListener", "removeEventListener"}
  /\ done.outcome = "TypeError"
  /\ done.type = "x" /\ done.listener = "undefined"
  /\ Registered(listeners, "x", "A")
  /\ listeners = done.was

\* C22: dispatchEvent called with a value that is not an object, is null, or has
\* no string `type` throws a TypeError to the caller, invokes no listener, queues
\* no microtask and leaves the registry as it was; no such call is accepted.
C22_BadEventRejected ==
  /\ (done.op = "dispatchEvent" /\ done.kind # "none") =>
       /\ done.outcome = "TypeError"
       /\ done.kind # "object" \/ TypeOf(done.type) # "string"
       /\ done.invoked = <<>>
       /\ done.queued = <<>>
       /\ listeners = done.was
  /\ (done.op = "dispatchEvent" /\ done.kind = "none") => TypeOf(done.type) = "string"
  /\ \A k \in 1..Len(stack) : TypeOf(stack[k].type) = "string"

\* C22 witness: dispatchEvent(null) was rejected while listeners are registered.
C22_Witness ==
  /\ done.op = "dispatchEvent" /\ done.outcome = "TypeError"
  /\ done.kind = "null"
  /\ listenerCount = 2
  /\ Len(stack) = 0

Names(ls) == [i \in 1..Len(ls) |-> ls[i].type]

\* C24: eventNames() yields exactly the types that hold at least one listener,
\* each once, in the order in which their buckets were created: a further
\* listener for an existing type moves nothing, a new type goes last, and
\* removing listeners or whole buckets leaves the remaining types in their order.
C24_EventNamesOrder ==
  /\ done.op = "eventNames" => done.passes[1] = Names(listeners)
  /\ NoDup(eventNames)
  /\ \A t \in AllTags :
       t \in Range(eventNames) <=> \E l \in Listeners : Registered(listeners, t, l)
  /\ (done.op = "addEventListener" /\ done.outcome = "returned") =>
       eventNames = IF HasBucket(done.was, done.type)
                    THEN Names(done.was)
                    ELSE Append(Names(done.was), done.type)
  /\ (done.op \in {"removeEventListener", "removeAllListeners"} /\ done.outcome = "returned") =>
       LET Stays(u) == HasBucket(listeners, u)
       IN eventNames = SelectSeq(Names(done.was), Stays)

\* C24 witness: 'y' was registered before 'x' and then got a second listener;
\* eventNames() yields y, x.
C24_Witness ==
  /\ done.op = "eventNames"
  /\ done.passes[1] = <<"y", "x">>
  /\ Len(Get(listeners, "y")) = 2

\* C25 as written: the value returned by one call of eventNames() yields the
\* same types in the same order when it is iterated a second time.
C25_Restartable == done.op = "eventNames" => done.passes[2] = done.passes[1]

\* C25 as amended: the value returned by eventNames() is the iterator of the
\* registry's keys, which can be consumed once: the first iteration yields the
\* types in order, a second iteration of the same value yields nothing.
C25_SinglePass ==
  done.op = "eventNames" =>
    /\ done.passes[1] = Names(listeners)
    /\ done.passes[2] = <<>>

\* C25 witness: eventNames() on a registry of two types yielded both, and nothing
\* when iterated again.
C25_Witness ==
  /\ done.op = "eventNames"
  /\ Len(done.passes[1]) = 2
  /\ done.passes[2] = <<>>

Holds(ls, t, l, once) ==
  \E i \in 1..Len(ls) :
    /\ ls[i].type = t
    /\ \E j \in 1..Len(ls[i].recs) : ls[i].recs[j] = Rec(l, once)

\* C26: a once-listener unregistered with removeEventListener / off or with
\* removeAllListeners before any dispatch of its type is never invoked: after
\* the removal its record is not in the registry, and a dispatch invokes only
\* records that are in the registry when their turn comes.
C26_RemovedOnceNeverFires ==
  /\ done.op = "removeEventListener" =>
       ~Holds(listeners, done.type, done.listener, TRUE)
  /\ done.op = "removeAllListeners" =>
       /\ \A l \in Listeners : ~Holds(listeners, done.type, l, TRUE)
       /\ done.type = "undefined" => listeners = <<>>
  /\ done.op = "invoke" => Holds(listeners, done.type, done.listener, done.once)

\* C26 witness: a once-listener that was never invoked has just been removed
\* with removeEventListener and is not registered.
C26_Witness ==
  /\ done.op = "removeEventListener" /\ done.prev = "once"
  /\ done.type = "x" /\ done.listener = "A"
  /\ ~Registered(listeners, "x", "A")
  /\ HasBucket(listeners, "x")

\* C29: the once removal happens whether the invocation succeeded or failed: a
\* once-listener that threw during its invocation by dispatchEvent or by
\* dispatchError is not registered when that call ends, however it ends, and is
\* invoked by no later dispatch, which invokes registered listeners only.
C29_OnceRemovedOnFailure ==
  /\ (done.op \in {"dispatchEvent", "dispatchError"} /\ done.threw # {}) =>
       \A i \in 1..Len(done.snap) :
         (done.snap[i].once /\ done.snap[i].listener \in done.threw)
           => ~Registered(listeners, done.type, done.snap[i].listener)
  /\ \A k \in 1..Len(stack) :
       stack[k].pc = "running" => Registered(listeners, stack[k].type, stack[k].cur.listener)

\* C29 witness: a dispatch of 'x' found the once-listener A and the listener B,
\* A threw, B was invoked after it, the dispatch returned and A is not registered.
C29_Witness ==
  /\ DispatchReturned /\ done.type = "x"
  /\ done.snap = <<Rec("A", TRUE), Rec("B", FALSE)>>
  /\ done.threw = {"A"}
  /\ done.invoked = <<"A", "B">>
  /\ ~Registered(listeners, "x", "A")

\* C30: a dispatch of an event of type t in which no listener throws invokes
\* only listeners registered for t, those it found in the bucket of t in their
\* order, never a listener registered for another type only, and each invoked
\* listener receives the event of the dispatch (its type; no error field).
C30_OnlyListenersOfType ==
  /\ (done.op = "invoke" /\ Top.kind = "event") =>
       /\ done.type = Top.type
       /\ done.error = "none"
       /\ done.listener = Top.cur.listener
       /\ \E i \in 1..Len(listeners) :
            listeners[i].type = Top.type /\ HasRec(listeners[i].recs, done.listener)
  /\ (DispatchReturned /\ done.threw = {}) =>
       /\ done.invoked = ListenersOf(done.snap)
       /\ done.queued = <<>>

\* C30 witness: A is registered for 'x' and B for 'error' only; a dispatch of 'x'
\* in which nobody threw invoked A and not B.
C30_Witness ==
  /\ DispatchReturned /\ done.type = "x" /\ done.threw = {}
  /\ done.invoked = <<"A">>
  /\ Registered(listeners, "error", "B")
  /\ ~Registered(listeners, "x", "B")

C31_NoLateDelivery ==
  /\ \A k \in 1..Len(stack) :
       Range(stack[k].invoked) \subseteq Range(ListenersOf(stack[k].snap))
  /\ done.op \in {"dispatchEvent", "dispatchError"} =>
       Range(done.invoked) \subseteq Range(ListenersOf(done.snap))
  /\ done.op = "microtask" => (stack = <<>> /\ done.invoked = <<>>)

\* C31 witness: dispatchError("boom") found no 'error' listener and returned, an
\* 'error' listener was registered afterwards, and the deferred task has now
\* thrown "boom" with the late listener registered and not invoked.
C31_Witness ==
  /\ done.op = "microtask" /\ done.error = "boom"
  /\ HasBucket(listeners, "error")
  /\ stack = <<>>
  /\ microtasks = <<>>

\* the values a deferred task can hold: what was passed to dispatchError or
\* thrown by a listener, null and undefined excepted
Deferrable == (Thrown \cup ThrownByError) \ {"null", "undefined"}

\* C32: a deferred unhandled failure, once scheduled, eventually surfaces when
\* the host runs its microtasks, and no operation on the target cancels or
\* swallows it: the queue of deferred tasks only grows at its end, or loses its
\* head to the task that throws that very value; registering an 'error' listener
\* or removeAllListeners before that turn changes nothing.
C32_DeferredSurfaces ==
  /\ [][microtasks' # microtasks =>
          \/ IsPrefix(microtasks, microtasks')
          \/ /\ microtasks' = Tail(microtasks)
             /\ done'.op = "microtask" /\ done'.outcome = "threw"
             /\ done'.error = Head(microtasks)]_vars
  /\ \A v \in Deferrable :
       (\E i \in 1..Len(microtasks) : microtasks[i] = v)
         ~> (done.op = "microtask" /\ done.outcome = "threw" /\ done.error = v)

\* C32 witness: the failure "boom" is scheduled, an 'error' listener was
\* registered afterwards and removeAllListeners() has just removed it, and the
\* deferred task is still pending.
C32_Witness ==
  /\ microtasks = <<"boom">>
  /\ done.op = "removeAllListeners" /\ done.type = "undefined"
  /\ HasBucket(done.was, "error")
  /\ listeners = <<>>

\* C33: when the only operation listeners call during a dispatch of t is
\* removeAllListeners (with t, with another type or with no argument), the
\* dispatch in progress still invokes every listener that was registered for t
\* when it began, in order, B after A's clear included, and when the bucket of t
\* was cleared the registry holds no listener for t when the dispatch returns.
C33_ClearKeepsDispatch ==
  /\ \A k \in 1..Len(stack) : IsPrefix(stack[k].invoked, ListenersOf(stack[k].snap))
  /\ DispatchReturned =>
       /\ done.invoked = ListenersOf(done.snap)
       /\ done.dirty => ~done.live
       /\ ~done.live => ~HasBucket(listeners, done.type)

\* C33 witness: a dispatch found A then B; the bucket was removed from the
\* registry during A's invocation, and B has just been invoked all the same.
C33_Witness ==
  /\ done.op = "invoke" /\ done.listener = "B" /\ ~done.live
  /\ ListenersOf(Top.snap) = <<"A", "B">>
  /\ Top.invoked = <<"A", "B">>
  /\ Top.dirty
  /\ ~HasBucket(listeners, Top.type)

\* C34: error delivery is synchronous and depth-first: when a listener invoked
\* by dispatchEvent throws, the call of dispatchError for that failure runs and
\* ends while the dispatch is suspended in its catch block, with the failing
\* listener the last one it invoked: every 'error' listener has been invoked for
\* that failure before the next listener of the dispatch is, and before the
\* dispatch returns (listeners that do not call the target).
C34_DepthFirstDelivery ==
  /\ \A k \in 2..Len(stack) :
       /\ stack[k].origin = "listener" /\ stack[k].kind = "error"
       /\ stack[k].error = stack[k].cause
       /\ stack[k - 1].kind = "event" /\ stack[k - 1].pc = "catching"
  /\ \A k \in 1..Len(stack) :
       stack[k].pc = "catching" =>
         /\ stack[k].cur.listener \in stack[k].threw
         /\ stack[k].invoked[Len(stack[k].invoked)] = stack[k].cur.listener
  /\ (Len(stack) > 0 /\ Top.pc = "catching") =>
       /\ done.op = "dispatchError" /\ done.origin = "listener"
       /\ done.outcome = "returned"
       /\ done.error = done.cause
       /\ done.invoked = ListenersOf(done.snap)
  /\ DispatchReturned => Len(stack) = done.depth

\* C34 witness: a dispatch found A then B; A threw "boom", the two 'error'
\* listeners have both been invoked for it, and B has not been invoked yet.
C34_Witness ==
  /\ Len(stack) = 1 /\ Top.pc = "catching"
  /\ ListenersOf(Top.snap) = <<"A", "B">>
  /\ Top.invoked = <<"A">>
  /\ done.op = "dispatchError" /\ done.error = "boom"
  /\ Len(done.invoked) = 2

\* The loop of a call is, at a later invocation, in the very configuration of
\* its first invocation: same bucket, same iterator position, same listener
\* being invoked.  Listeners that do there what they did the first time bring
\* the loop back to it for ever.
Recurs(f) ==
  /\ f.pc = "running" /\ f.live
  /\ Len(f.invoked) > 1
  /\ Get(listeners, f.type) = f.snap
  /\ f.pos = 1
  /\ f.cur = f.snap[1]

\* C35: a dispatch terminates when every listener invocation terminates, the
\* listener functions are finitely many and no listener re-enters dispatchEvent
\* or dispatchError, even if listeners register and unregister listeners of the
\* dispatched type meanwhile: whatever the listeners do, the loop never comes
\* back to a configuration it has been in.
C35_DispatchTerminates == \A k \in 1..Len(stack) : ~Recurs(stack[k])

\* a dispatchEvent frame of type 'error' whose listener has thrown, after the
\* call of dispatchError made by its catch block ended
ErrorOnErrorCaught ==
  /\ Len(stack) > 0
  /\ Top.kind = "event" /\ Top.type = "error"
  /\ Top.pc \in {"catching", "unwinding"}

\* C36: when an 'error' listener throws during dispatchEvent of an event of type
\* 'error', the value goes to dispatchError and the 'error' listeners registered
\* then, the one that threw and a once-listener not yet removed included, are
\* all invoked a second time, with an event whose error is the thrown value;
\* what they throw in that pass is only queued, so nothing is ever stacked on a
\* dispatchError call made by a catch block: one level of nesting, no more.
C36_ErrorOnError ==
  /\ \A k \in 1..Len(stack) :
       (stack[k].kind = "error" /\ stack[k].origin = "listener") => k = Len(stack)
  /\ ErrorOnErrorCaught =>
       /\ done.op = "dispatchError" /\ done.outcome = "returned"
       /\ done.error = done.cause
       /\ Top.cur \in Range(done.snap)
       /\ done.invoked = ListenersOf(done.snap)
       /\ \A i \in 1..Len(done.queued) : done.queued[i] \in ThrownByError

\* a dispatchEvent frame of another type than 'error' whose listener has
\* thrown, after the call of dispatchError made by its catch block ended
Caught ==
  /\ Len(stack) > 0
  /\ Top.kind = "event" /\ Top.type # "error"
  /\ Top.pc \in {"catching", "unwinding"}

\* the deferred tasks that were pending when the call that just ended began
PendingBefore ==
  IF done.queued = <<>> THEN microtasks
  ELSE SubSeq(microtasks, 1, Len(microtasks) - Len(done.queued))

\* C37: with a once-listener as the only 'error' listener, when two listeners
\* throw in one dispatch the first value is delivered to the 'error' listener,
\* which is then removed, and the second value, whatever it is, finds no 'error'
\* bucket and is queued as a deferred failure: it is not lost and not thrown out
\* of dispatchEvent.  (The second failure of a dispatch that finds no 'error'
\* bucket while no failure was deferred before it: the first one was delivered
\* to 'error' listeners that are gone, once-listeners.)
C37_SecondFailureDeferred ==
  /\ (Caught /\ Cardinality(Top.threw) = 1 /\ done.outcome = "returned"
        /\ Len(done.snap) = 1 /\ done.snap[1].once) =>
       /\ done.error = done.cause
       /\ done.invoked = <<done.snap[1].listener>>
       /\ ~HasBucket(listeners, "error")
  /\ (Caught /\ Cardinality(Top.threw) = 2 /\ Len(done.snap) = 0 /\ PendingBefore = <<>>) =>
       /\ done.outcome = "returned"
       /\ done.invoked = <<>>
       /\ done.queued = <<done.cause>>
       /\ microtasks = <<done.cause>>
       /\ Top.pc = "catching"

\* C38: the once removal goes by the record that was invoked and by listener
\* identity on the live registry: when the invocation of a once record ends,
\* its listener is not registered for the dispatched type, even if it was
\* registered again during the invocation, with once true or false, by itself or
\* after being unregistered; and a dispatch invokes registered listeners only,
\* so a later dispatch does not invoke it.
C38_OnceRemovalByIdentity ==
  [][/\ (/\ Len(stack) > 0 /\ Top.pc = "running" /\ Top.cur.once
         /\ Len(stack') = Len(stack) /\ stack'[Len(stack)].pc = "next")
          => ~Registered(listeners', Top.type, Top.cur.listener)
     /\ (done'.op = "invoke" /\ done'.live)
          => Registered(listeners', done'.type, done'.listener)]_vars

\* C38 witness: the once-listener A, while being invoked, has just registered
\* itself again for the dispatched type with once = false, and the registry
\* holds a plain record of it.
C38_Witness ==
  /\ Len(stack) = 1 /\ Top.pc = "running"
  /\ Top.cur = Rec("A", TRUE)
  /\ done.op = "addEventListener" /\ done.type = Top.type /\ done.listener = "A"
  /\ ~done.once /\ done.prev = "once"
  /\ Flag(listeners, Top.type, "A") = "plain"

\* C39: the place of a listener in the delivery order of a type is fixed by its
\* first registration and reset by its removal: registering a registered pair
\* again leaves it at the index it had, with the same listeners around it;
\* unregistering it takes it out and keeps the others in order; and registering
\* a pair that is not registered, never registered or unregistered before, puts
\* it after every listener then registered for the type.
C39_PositionByRegistration ==
  LET old == Get(done.was, done.type)
      new == Get(listeners, done.type)
      Others(r) == r.listener # done.listener
  IN /\ (done.op = "addEventListener" /\ done.outcome = "returned" /\ done.prev # "absent") =>
          /\ RecIndex(new, done.listener) = RecIndex(old, done.listener)
          /\ ListenersOf(new) = ListenersOf(old)
     /\ (done.op = "addEventListener" /\ done.outcome = "returned" /\ done.prev = "absent") =>
          /\ RecIndex(new, done.listener) = Len(old) + 1
          /\ SubSeq(new, 1, Len(old)) = old
          /\ Len(new) = Len(old) + 1
     /\ (done.op = "removeEventListener" /\ done.outcome = "returned" /\ done.prev # "absent") =>
          /\ ~HasRec(new, done.listener)
          /\ new = SelectSeq(old, Others)

\* C39 witness: B was registered for 'x' first and C after it; B, registered
\* again with another flag, is still first, before C.
C39_Witness ==
  /\ done.op = "addEventListener" /\ done.type = "x" /\ done.listener = "B"
  /\ done.prev = "plain" /\ done.once
  /\ Get(listeners, "x") = <<Rec("B", TRUE), Rec("C", FALSE)>>

\* the records of the registry with their types, in the order of the registry
RECURSIVE RecordsFrom(_, _)
RecordsFrom(ls, i) ==
  IF i > Len(ls) THEN <<>>
  ELSE [j \in 1..Len(ls[i].recs) |-> <<ls[i].type, ls[i].recs[j]>>] \o RecordsFrom(ls, i + 1)

\* C40: frame of dispatch: every step of a dispatchEvent or dispatchError call
\* whose listeners call no operation of the target leaves the registry as it
\* is, or removes from it exactly the once record that the call, or the
\* delivery of a failure to the 'error' listeners inside it, has invoked: all
\* other records, their flags, their order and the order of the types stay.
C40_DispatchFrame ==
  [][(Len(stack) > 0 \/ Len(stack') > 0 \/ done'.op \in {"dispatchEvent", "dispatchError"}) =>
       \/ listeners' = listeners
       \/ /\ Len(stack) > 0
          /\ Top.cur.once
          /\ Top.invoked # <<>> /\ Top.invoked[Len(Top.invoked)] = Top.cur.listener
          /\ LET Stays(p) == p # <<Top.type, Top.cur>>
             IN /\ RecordsFrom(listeners', 1) = SelectSeq(RecordsFrom(listeners, 1), Stays)
                /\ Len(RecordsFrom(listeners', 1)) = Len(RecordsFrom(listeners, 1)) - 1
          /\ \A i \in 1..Len(listeners') : listeners'[i].recs # <<>>]_vars

\* C40 witness: a dispatch of 'x' found the once-listener A and the listener B,
\* has invoked A and removed its record; B's record and the 'error' bucket are
\* as they were.
C40_Witness ==
  /\ Len(stack) = 1 /\ Top.pc = "next" /\ Top.type = "x"
  /\ Top.snap = <<Rec("A", TRUE), Rec("B", FALSE)>>
  /\ Top.invoked = <<"A">>
  /\ Get(listeners, "x") = <<Rec("B", FALSE)>>
  /\ HasBucket(listeners, "error")

====
